---- MODULE Spec2Model ----
(***************************************************************************)
(* The SFUSD lunch-menu pipeline: download.py (Fetcher), parse_menu.py     *)
(* (Extractor), add_to_homeassistant.py (Publisher) and run.py             *)
(* (Orchestrator), as one state machine over the data directory and the    *)
(* Home Assistant calendar.                                                *)
(*                                                                         *)
(* Each script is a process: its record (fetch, ext, pub, orch) holds its  *)
(* local variables and its position; the files and the calendar are the    *)
(* state the processes share.                                              *)
(***************************************************************************)
EXTENDS Integers, Sequences, FiniteSets, Bags, TLC

VARIABLES
    pdf,        \* data/<month>.pdf: 0 when absent, else the Fetcher run that saved it
    json,       \* data/<month>.json: NoFile, or the JSON value stored in it
    temps,      \* indices i whose data/temp/menu_<i>.pdf is on disk
    calendar,   \* the events held by calendar.lunch, a bag: the service stores duplicates
    fetch,      \* the download.py process
    ext,        \* the parse_menu.py process
    pub,        \* the add_to_homeassistant.py process
    orch        \* the run.py process

vars == <<pdf, json, temps, calendar, fetch, ext, pub, orch>>

----------------------------------------------------------------------------
(* Bounds of the model *)

MaxRecords == 2       \* longest MenuSet
MaxDay == 2           \* school days are 1..MaxDay
MaxLinks == 2         \* most candidate links on the listing page
MaxRuns == 2           \* Orchestrator runs
MaxInvocations == 2   \* stand-alone Publisher invocations

----------------------------------------------------------------------------
(* Program constants *)

HTTP_OK == 200
LunchStartHour == 11
LunchEndHour == 12
HoursPerDay == 24

----------------------------------------------------------------------------
(* Data *)

\* A date string: 1..MaxDay stand for ISO dates of school days, 0 for a string
\* that datetime.fromisoformat rejects.
Days == 1..MaxDay
DateStrings == 0..MaxDay

FoodLists == {<<"Pizza", "Salad">>}

MenuRecords == [date : DateStrings, food : FoodLists]

RECURSIVE SeqsUpTo(_, _)
SeqsUpTo(S, n) ==
    IF n = 0 THEN {<<>>}
    ELSE LET shorter == SeqsUpTo(S, n - 1)
         IN  shorter \cup {Append(s, x) : s \in {t \in shorter : Len(t) = n - 1}, x \in S}

MenuSets == SeqsUpTo(MenuRecords, MaxRecords)

\* JSON values the pipeline stores or receives: a list of records, or a value
\* that is no list (a number).
ListValue(m) == [type |-> "list", items |-> m]
ScalarValue == [type |-> "scalar", items |-> <<>>]
NoFile == [type |-> "absent", items |-> <<>>]
JsonValues == {ListValue(m) : m \in MenuSets} \cup {ScalarValue}

\* Time as hours since the start of day 0.
Hour(day, h) == day * HoursPerDay + h

\* datetime.fromisoformat(date_str) returns (TRUE) or raises ValueError (FALSE).
ParsesAsDate(date_str) == date_str \in Days

----------------------------------------------------------------------------
(* The calendar service (Home Assistant) *)

\* Events somebody else put on the calendar before the pipeline ran.
PreExisting ==
    { [summary |-> s, description |-> <<>>,
       start_date_time |-> Hour(1, LunchStartHour), end_date_time |-> Hour(1, LunchEndHour)]
      : s \in {"Lunch", "Recess"} }

\* GET /api/calendars/calendar.lunch?start=..&end=..: the events overlapping the window.
ListEvents(cal, window) ==
    {e \in BagToSet(cal) : e.start_date_time < window.end /\ e.end_date_time > window.start}

\* POST /api/services/calendar/create_event, answered 200: the event is stored,
\* next to any equal event already there.
StoreEvent(cal, event_data) ==
    cal (+) SetToBag({[summary |-> event_data.summary,
                       description |-> event_data.description,
                       start_date_time |-> event_data.start_date_time,
                       end_date_time |-> event_data.end_date_time]})

Statuses == {HTTP_OK, 204, 500}

\* What requests.get can do: raise (network error, timeout), or return a
\* response with a status; a 200 body may fail to decode as JSON.
GetOutcomes ==
    {[raised |-> TRUE, status |-> 0, decodable |-> FALSE]}
    \cup {[raised |-> FALSE, status |-> s, decodable |-> TRUE] : s \in Statuses}
    \cup {[raised |-> FALSE, status |-> HTTP_OK, decodable |-> FALSE]}

\* What requests.post can do.
PostOutcomes ==
    {[raised |-> TRUE, status |-> 0]}
    \cup {[raised |-> FALSE, status |-> s] : s \in Statuses}

----------------------------------------------------------------------------
(* Publisher: add_to_homeassistant.py *)

\* description = "\n".join(f"- {item}" ...): one "- item" line per food item.
Description(food_items) == [k \in 1..Len(food_items) |-> <<"- ", food_items[k]>>]

CreateCalendarEventNextDay(date_str, food_items) ==
    [entity_id |-> "calendar.lunch",
     summary |-> "Lunch",
     description |-> Description(food_items),
     start_date_time |-> Hour(date_str + 1, LunchStartHour),
     end_date_time |-> Hour(date_str + 1, LunchEndHour)]

CreateCalendarEvent(date_str, food_items) ==
    [entity_id |-> "calendar.lunch",
     summary |-> "Lunch",
     description |-> Description(food_items),
     start_date_time |-> Hour(date_str, LunchStartHour),
     end_date_time |-> Hour(date_str, LunchEndHour)]

\* day_start, day_end = day_start + timedelta(days=1)
DayWindow(date_str) == [start |-> Hour(date_str, 0), end |-> Hour(date_str, 0) + HoursPerDay]

StatusIsOkAny2xx(status_code) == status_code \in 200..299

\* response.status_code == 200
StatusIsOk(status_code) == status_code = HTTP_OK

\* the scan of existing_events for a summary equal to 'Lunch'
LunchEventExists(existing_events) == \E event \in existing_events : event.summary = "Lunch"

\* if not ha_url or not ha_token
ConfigMissing(ha_url, ha_token) == ~ha_url \/ ~ha_token

\* main() catches every exception, prints it and returns: the process exits 0
\* whether or not add_to_homeassistant raised.
PublisherExitStatus(raised) == 0

\* One pass of the for loop body for a record whose date parsed, given what the
\* two requests do: the record's outcome, whether a create request was sent,
\* and the calendar afterwards.
ProcessRecord(menu_item, g, p, cal) ==
    LET existing_events == ListEvents(cal, DayWindow(menu_item.date))
        event_data == CreateCalendarEvent(menu_item.date, menu_item.food)
        no_create(o) == [outcome |-> o, create_sent |-> FALSE, calendar |-> cal]
    IN  IF g.raised THEN no_create("failed")
        ELSE IF StatusIsOk(g.status) /\ ~g.decodable THEN no_create("failed")
        ELSE IF StatusIsOk(g.status) /\ LunchEventExists(existing_events)
             THEN no_create("skipped")
        ELSE IF p.raised
             THEN [outcome |-> "failed", create_sent |-> TRUE, calendar |-> cal]
        ELSE IF StatusIsOk(p.status)
             THEN [outcome |-> "added", create_sent |-> TRUE,
                   calendar |-> StoreEvent(cal, event_data)]
        ELSE [outcome |-> "failed", create_sent |-> TRUE, calendar |-> cal]

NoLast ==
    [date |-> 0, get |-> [raised |-> TRUE, status |-> 0, decodable |-> FALSE],
     lunch_listed |-> FALSE, create_sent |-> FALSE, outcome |-> "none"]

PubOff ==
    [pc |-> "off", invocations |-> 0, ha_url |-> FALSE, ha_token |-> FALSE,
     menu_data |-> <<>>, i |-> 0,
     success_count |-> 0, error_count |-> 0, skipped_count |-> 0,
     gets |-> 0, posts |-> 0, raised |-> FALSE, exit |-> 0,
     last |-> NoLast, clean |-> TRUE]

\* The process as started with the given environment (.env).
PubStarted(p, ha_url, ha_token) ==
    [PubOff EXCEPT !.pc = "main", !.invocations = p.invocations + 1,
                   !.ha_url = ha_url, !.ha_token = ha_token,
                   !.clean = p.clean]

\* An exception reaches main(): it is printed and the process ends.
PubRaise(p) ==
    [p EXCEPT !.pc = "exit", !.raised = TRUE, !.exit = PublisherExitStatus(TRUE),
              !.last = NoLast, !.clean = FALSE]

\* main() up to the first loop iteration: load the JSON, check the configuration.
PubMain ==
    /\ pub.pc = "main"
    /\ pub' = IF json.type # "list" THEN PubRaise(pub)
              ELSE IF ConfigMissing(pub.ha_url, pub.ha_token) THEN PubRaise(pub)
              ELSE [pub EXCEPT !.pc = "loop", !.menu_data = json.items, !.i = 1]
    /\ UNCHANGED <<pdf, json, temps, calendar, fetch, ext, orch>>

\* One iteration of "for menu_item in menu_data".
PubRecord ==
    /\ pub.pc = "loop"
    /\ pub.i <= Len(pub.menu_data)
    /\ LET menu_item == pub.menu_data[pub.i] IN
       IF ~ParsesAsDate(menu_item.date)
       THEN \* datetime.fromisoformat raises before the try block
            /\ pub' = PubRaise(pub)
            /\ UNCHANGED calendar
       ELSE \E g \in GetOutcomes, p \in PostOutcomes :
            LET r == ProcessRecord(menu_item, g, p, calendar)
                listed == /\ ~g.raised
                          /\ g.decodable
                          /\ \E e \in BagToSet(calendar) :
                                /\ e.summary = "Lunch"
                                /\ e.end_date_time > Hour(menu_item.date, 0)
                                /\ e.start_date_time < Hour(menu_item.date + 1, 0)
            IN  /\ calendar' = r.calendar
                /\ pub' = [pub EXCEPT
                      !.i = @ + 1,
                      !.success_count = @ + (IF r.outcome = "added" THEN 1 ELSE 0),
                      !.skipped_count = @ + (IF r.outcome = "skipped" THEN 1 ELSE 0),
                      !.error_count = @ + (IF r.outcome = "failed" THEN 1 ELSE 0),
                      !.gets = @ + 1,
                      !.posts = @ + (IF r.create_sent THEN 1 ELSE 0),
                      !.last = [date |-> menu_item.date, get |-> g, lunch_listed |-> listed,
                                create_sent |-> r.create_sent, outcome |-> r.outcome],
                      !.clean = @ /\ ~g.raised /\ g.status = HTTP_OK /\ g.decodable
                                  /\ (r.create_sent => r.outcome = "added")]
    /\ UNCHANGED <<pdf, json, temps, fetch, ext, orch>>

\* The loop is exhausted: print the summary and return.
PubSummary ==
    /\ pub.pc = "loop"
    /\ pub.i > Len(pub.menu_data)
    /\ pub' = [pub EXCEPT !.pc = "exit", !.exit = PublisherExitStatus(FALSE), !.last = NoLast]
    /\ UNCHANGED <<pdf, json, temps, calendar, fetch, ext, orch>>

\* python add_to_homeassistant.py data/<month>.json, from a shell.
PubInvoke ==
    /\ pub.pc \in {"off", "exit"}
    /\ pub.invocations < MaxInvocations
    /\ \E ha_url \in BOOLEAN, ha_token \in BOOLEAN : pub' = PubStarted(pub, ha_url, ha_token)
    /\ UNCHANGED <<pdf, json, temps, calendar, fetch, ext, orch>>

----------------------------------------------------------------------------
(* Files of the data directory *)

CurrentMonth == "august"
PdfPath == "data/august.pdf"
JsonPath == "data/august.json"

\* Path(line).exists(), for the lines the scripts print.
PathExists(path) ==
    \/ path = PdfPath /\ pdf # 0
    \/ path = JsonPath /\ json # NoFile

\* line.endswith('.pdf')
EndsWithPdf(line) == line \in {PdfPath, "Successfully identified and saved data/august.pdf"}

WithSuffixJsonOtherMonth(path) == "data/july.json"

\* pdf_path.with_suffix('.json')
WithSuffixJson(path) == IF path = PdfPath THEN JsonPath ELSE path

----------------------------------------------------------------------------
(* Fetcher: download.py *)

\* First-page texts of the PDFs behind the candidate links.
PageTexts == {"AUGUST LUNCH MENU", "august lunch menu", "September Lunch Menu"}

\* str.lower() on those texts.
Lower(text) ==
    CASE text = "AUGUST LUNCH MENU" -> "august lunch menu"
      [] text = "September Lunch Menu" -> "september lunch menu"
      [] OTHER -> text

\* month in text (substring, case-sensitive)
Contains(text, month) ==
    <<text, month>> \in {<<"august lunch menu", "august">>,
                         <<"september lunch menu", "september">>}

\* What downloading one candidate can do: requests.get or raise_for_status
\* raises ("refused", nothing written), iter_content raises after the file was
\* opened ("broken"), or the file is written: unreadable by pypdf, or a PDF
\* with a first-page text.
DownloadOutcomes ==
    {[kind |-> k, text |-> ""] : k \in {"refused", "broken", "unreadable"}}
    \cup {[kind |-> "pdf", text |-> t] : t \in PageTexts}

\* the download raised requests.RequestException
DownloadRaises(d) == d.kind \in {"refused", "broken"}

\* open(temp_file, 'wb') was reached
FileWritten(d) == d.kind # "refused"

IsPdfForCurrentMonthNoLower(d, month) == d.kind = "pdf" /\ Contains(d.text, month)

\* is_pdf_for_current_month: FALSE when pypdf cannot read the file
IsPdfForCurrentMonth(d, month) == d.kind = "pdf" /\ Contains(Lower(d.text), month)

CleanupTempsLastOnly(disk, temp_files) ==
    disk \ {i \in temp_files : \A j \in temp_files : j <= i}

\* for f in temp_files: if f.exists(): f.unlink()
CleanupTemps(disk, temp_files) == disk \ temp_files

\* exit(0 if success else 1)
FetcherExitStatus(success) == IF success THEN 0 ELSE 1

FetchOff ==
    [pc |-> "off", run |-> 0, n |-> 0, i |-> 0, found_menu |-> FALSE,
     temp_files |-> {}, downloads |-> <<>>, saved |-> -1, pdf0 |-> 0,
     result |-> "none", exit |-> 0, stdout |-> <<>>]

\* download_menu returns and the process exits.
FetchReturn(f, success, result) ==
    [f EXCEPT !.pc = "exit", !.result = result, !.exit = FetcherExitStatus(success),
              !.stdout = IF success
                         THEN <<"Successfully identified and saved data/august.pdf", PdfPath>>
                         ELSE <<>>]

\* Fetch the listing page and collect the candidate links.
FetchListing ==
    /\ fetch.pc = "start"
    /\ \E ok \in BOOLEAN, n \in 0..MaxLinks :
         fetch' = IF ~ok THEN FetchReturn(fetch, FALSE, "listing_failed")
                  ELSE IF n = 0 THEN FetchReturn(fetch, FALSE, "no_links")
                  ELSE [fetch EXCEPT !.pc = "loop", !.n = n]
    /\ UNCHANGED <<pdf, json, temps, calendar, ext, pub, orch>>

\* One iteration of "for i, link in enumerate(unique_links)".
FetchCandidate ==
    /\ fetch.pc = "loop"
    /\ ~fetch.found_menu
    /\ fetch.i < fetch.n
    /\ \E d \in DownloadOutcomes :
         LET i == fetch.i
             written == IF FileWritten(d) THEN temps \cup {i} ELSE temps
             tried == [fetch EXCEPT !.temp_files = @ \cup {i},
                                    !.downloads = Append(@, [index |-> i, outcome |-> d])]
         IN  IF ~DownloadRaises(d) /\ IsPdfForCurrentMonth(d, CurrentMonth)
             THEN \* temp_file.rename(output_file); break
                  /\ temps' = written \ {i}
                  /\ pdf' = fetch.run
                  /\ fetch' = [tried EXCEPT !.found_menu = TRUE, !.saved = i]
             ELSE /\ temps' = written
                  /\ pdf' = pdf
                  /\ fetch' = [tried EXCEPT !.i = i + 1]
    /\ UNCHANGED <<json, calendar, ext, pub, orch>>

\* After the loop: remove the temporary files, report.
FetchCleanup ==
    /\ fetch.pc = "loop"
    /\ fetch.found_menu \/ fetch.i >= fetch.n
    /\ temps' = CleanupTemps(temps, fetch.temp_files)
    /\ fetch' = IF fetch.found_menu THEN FetchReturn(fetch, TRUE, "found")
                ELSE FetchReturn(fetch, FALSE, "not_found")
    /\ UNCHANGED <<pdf, json, calendar, ext, pub, orch>>

----------------------------------------------------------------------------
(* Extractor: parse_menu.py *)

\* The text the AI service returns, as json.loads sees it: not JSON, a list,
\* an object (with or without a "menu" key, whose value is any JSON value), or
\* another value.
AiResponses ==
    {[type |-> "list", has_menu |-> FALSE, value |-> ListValue(m)] : m \in MenuSets}
    \cup {[type |-> "dict", has_menu |-> TRUE, value |-> v] : v \in JsonValues}
    \cup {[type |-> t, has_menu |-> FALSE, value |-> ScalarValue]
          : t \in {"dict", "scalar", "invalid"}}

\* The service call raises, or returns a response.
ServiceOutcomes ==
    {[failed |-> TRUE, response |-> [type |-> "invalid", has_menu |-> FALSE,
                                     value |-> ScalarValue]]}
    \cup {[failed |-> FALSE, response |-> r] : r \in AiResponses}

\* json.loads, then "Ensure it's a list": the menu data, or an exception.
NormalizeResponse(response) ==
    IF response.type = "invalid" THEN [raised |-> TRUE, menu_data |-> ScalarValue]
    ELSE IF response.type = "dict" /\ response.has_menu
         THEN [raised |-> FALSE, menu_data |-> response.value]
    ELSE IF response.type # "list" THEN [raised |-> TRUE, menu_data |-> ScalarValue]
    ELSE [raised |-> FALSE, menu_data |-> response.value]

\* parse_menu_with_gemini
ParseMenuWithGemini(pdf_exists, api_key, service) ==
    IF ~pdf_exists \/ ~api_key \/ service.failed
    THEN [raised |-> TRUE, menu_data |-> ScalarValue]
    ELSE NormalizeResponse(service.response)

ExtOff ==
    [pc |-> "off", api_key |-> FALSE, service |-> CHOOSE o \in ServiceOutcomes : o.failed,
     wrote |-> FALSE, exit |-> 0, stdout |-> <<>>]

\* main() of parse_menu.py on data/<month>.pdf.
ExtractRun ==
    /\ ext.pc = "start"
    /\ \E api_key \in BOOLEAN, service \in ServiceOutcomes :
         LET r == ParseMenuWithGemini(PathExists(PdfPath), api_key, service)
             ran == [ext EXCEPT !.pc = "exit", !.api_key = api_key, !.service = service]
         IN  IF r.raised
             THEN /\ json' = json
                  /\ ext' = [ran EXCEPT !.exit = 1]
             ELSE /\ json' = r.menu_data
                  /\ ext' = [ran EXCEPT !.wrote = TRUE, !.exit = 0, !.stdout = <<JsonPath>>]
    /\ UNCHANGED <<pdf, temps, calendar, fetch, pub, orch>>

----------------------------------------------------------------------------
(* Orchestrator: run.py *)

\* the lines of the downloader's stdout that end in .pdf and name a file
RECURSIVE DownloadedPdfPaths(_)
DownloadedPdfPaths(output_lines) ==
    IF output_lines = <<>> THEN <<>>
    ELSE LET line == Head(output_lines)
             rest == DownloadedPdfPaths(Tail(output_lines))
         IN  IF EndsWithPdf(line) /\ PathExists(line) THEN <<line>> \o rest ELSE rest

\* output_lines[-1] if output_lines else ""
LastLine(output_lines) ==
    IF output_lines = <<>> THEN "" ELSE output_lines[Len(output_lines)]

\* not (not parsed_json_path or not Path(parsed_json_path).exists())
ParsedPathValid(parsed_json_path) == parsed_json_path # "" /\ PathExists(parsed_json_path)

ShouldPublishAlways(newly_parsed) == TRUE

\* if newly_parsed
ShouldPublish(newly_parsed) == newly_parsed

NextFileSame(idx) == idx

\* the for loop moves to the next path, also on "continue"
NextFile(idx) == idx + 1

OrchOff ==
    [pc |-> "off", runs |-> 0, downloaded_pdf_paths |-> <<>>, idx |-> 0, exit |-> 0,
     fetch_result |-> "none", fetch_exit |-> 0, files |-> <<>>,
     history |-> [publish_total |-> 0, published_in |-> 0, publish_failed |-> FALSE,
                  json_created_in |-> 0]]

\* What the runs so far did, kept from run to run: how often and in which run
\* add_to_homeassistant.py was started, whether it failed, and which run's
\* parse wrote the JSON file.
PublishStarted(o) ==
    [o EXCEPT !.history.publish_total = @ + 1, !.history.published_in = o.runs]

NewFile(path) ==
    [path |-> path, json_existed |-> FALSE, parse_calls |-> 0, parse_exit |-> 0,
     parse_path_ok |-> FALSE, publish_calls |-> 0, publish_failed |-> FALSE]

\* python run.py: note the state, start download.py.
OrchStart ==
    /\ orch.pc \in {"off", "done"}
    /\ orch.runs < MaxRuns
    /\ orch' = [OrchOff EXCEPT !.pc = "fetch", !.runs = orch.runs + 1,
                               !.history = orch.history]
    /\ fetch' = [FetchOff EXCEPT !.pc = "start", !.run = orch.runs + 1, !.pdf0 = pdf]
    /\ UNCHANGED <<pdf, json, temps, calendar, ext, pub>>

\* download.py has exited: stop, or go through the paths it printed.
OrchFetchDone ==
    /\ orch.pc = "fetch"
    /\ fetch.pc = "exit"
    /\ LET seen == [orch EXCEPT !.fetch_result = fetch.result, !.fetch_exit = fetch.exit]
           paths == DownloadedPdfPaths(fetch.stdout)
       IN  orch' = IF fetch.exit # 0 THEN [seen EXCEPT !.pc = "done", !.exit = 1]
                   ELSE IF paths = <<>> THEN [seen EXCEPT !.pc = "done", !.exit = 0]
                   ELSE [seen EXCEPT !.pc = "loop", !.downloaded_pdf_paths = paths, !.idx = 1]
    /\ fetch' = FetchOff
    /\ UNCHANGED <<pdf, json, temps, calendar, ext, pub>>

\* The top of the loop body for the next path: skip the parse when the JSON
\* file exists, else start parse_menu.py.
OrchFile ==
    /\ orch.pc = "loop"
    /\ orch.idx <= Len(orch.downloaded_pdf_paths)
    /\ LET pdf_path == orch.downloaded_pdf_paths[orch.idx]
           json_path == WithSuffixJson(pdf_path)
       IN  IF PathExists(json_path)
           THEN IF ShouldPublish(FALSE)
                THEN /\ orch' = PublishStarted([orch EXCEPT !.pc = "publish",
                                   !.files = Append(@, [NewFile(pdf_path) EXCEPT
                                                          !.json_existed = TRUE,
                                                          !.publish_calls = 1])])
                     /\ \E ha_url \in BOOLEAN, ha_token \in BOOLEAN :
                          pub' = PubStarted(PubOff, ha_url, ha_token)
                     /\ ext' = ext
                ELSE /\ orch' = [orch EXCEPT !.idx = NextFile(@),
                                   !.files = Append(@, [NewFile(pdf_path) EXCEPT
                                                          !.json_existed = TRUE])]
                     /\ UNCHANGED <<ext, pub>>
           ELSE /\ orch' = [orch EXCEPT !.pc = "parse",
                              !.files = Append(@, [NewFile(pdf_path) EXCEPT
                                                     !.parse_calls = 1])]
                /\ ext' = [ExtOff EXCEPT !.pc = "start"]
                /\ pub' = pub
    /\ UNCHANGED <<pdf, json, temps, calendar, fetch>>

\* parse_menu.py has exited: on failure go to the next path, else start
\* add_to_homeassistant.py.
OrchParseDone ==
    /\ orch.pc = "parse"
    /\ ext.pc = "exit"
    /\ LET k == Len(orch.files)
           path_ok == ParsedPathValid(LastLine(ext.stdout))
           newly_parsed == ext.exit = 0 /\ path_ok
           seen == [orch EXCEPT !.files[k].parse_exit = ext.exit,
                                !.files[k].parse_path_ok = path_ok,
                                !.history.json_created_in =
                                    IF ext.wrote THEN orch.runs ELSE @]
       IN  IF ShouldPublish(newly_parsed)
           THEN /\ orch' = PublishStarted([seen EXCEPT !.pc = "publish",
                                                       !.files[k].publish_calls = @ + 1])
                /\ \E ha_url \in BOOLEAN, ha_token \in BOOLEAN :
                     pub' = PubStarted(PubOff, ha_url, ha_token)
           ELSE /\ orch' = [seen EXCEPT !.pc = "loop", !.idx = NextFile(@)]
                /\ pub' = pub
    /\ ext' = ExtOff
    /\ UNCHANGED <<pdf, json, temps, calendar, fetch>>

\* add_to_homeassistant.py has exited: whatever its status, go on.
OrchPublishDone ==
    /\ orch.pc = "publish"
    /\ pub.pc = "exit"
    /\ LET k == Len(orch.files)
       IN  orch' = [orch EXCEPT !.pc = "loop", !.idx = NextFile(@),
                      !.history.publish_failed =
                          pub.exit # 0 \/ pub.raised \/ pub.error_count > 0,
                      !.files[k].publish_failed =
                          pub.exit # 0 \/ pub.raised \/ pub.error_count > 0]
    /\ pub' = PubOff
    /\ UNCHANGED <<pdf, json, temps, calendar, fetch, ext>>

\* The loop is exhausted: "Pipeline Finished Successfully".
OrchFinish ==
    /\ orch.pc = "loop"
    /\ orch.idx > Len(orch.downloaded_pdf_paths)
    /\ orch' = [orch EXCEPT !.pc = "done", !.exit = 0]
    /\ UNCHANGED <<pdf, json, temps, calendar, fetch, ext, pub>>

----------------------------------------------------------------------------
(* Specifications *)

\* The pipeline: run.py, run up to MaxRuns times on a fresh data directory.
Init ==
    /\ pdf = 0
    /\ json = NoFile
    /\ temps = {}
    /\ calendar \in {SetToBag(c) : c \in SUBSET PreExisting}
    /\ fetch = FetchOff
    /\ ext = ExtOff
    /\ pub = PubOff
    /\ orch = OrchOff

Next ==
    \/ OrchStart
    \/ FetchListing
    \/ FetchCandidate
    \/ FetchCleanup
    \/ OrchFetchDone
    \/ OrchFile
    \/ ExtractRun
    \/ OrchParseDone
    \/ PubMain
    \/ PubRecord
    \/ PubSummary
    \/ OrchPublishDone
    \/ OrchFinish

Spec == Init /\ [][Next]_vars

\* The Publisher alone, invoked from a shell on a JSON file that is already there.
InitPublisher ==
    /\ pdf = 0
    /\ json \in JsonValues \cup {NoFile}
    /\ temps = {}
    /\ calendar \in {SetToBag(c) : c \in SUBSET PreExisting}
    /\ fetch = FetchOff
    /\ ext = ExtOff
    /\ pub = PubOff
    /\ orch = OrchOff

NextPublisher == PubInvoke \/ PubMain \/ PubRecord \/ PubSummary

SpecPublisher == InitPublisher /\ [][NextPublisher]_vars

----------------------------------------------------------------------------
(* Claims about the Publisher, checked under SpecPublisher *)

AllDatesParse(m) == \A k \in 1..Len(m) : ParsesAsDate(m[k].date)

C2_Original ==
    (pub.last.outcome # "none" /\ ~pub.last.get.raised)
    => /\ (pub.last.outcome = "skipped")
            <=> (pub.last.get.status = HTTP_OK /\ pub.last.lunch_listed)
       /\ (pub.last.outcome = "skipped") => ~pub.last.create_sent
       /\ (pub.last.outcome # "skipped") => pub.last.create_sent

\* C2 amended: the same, for responses whose body decodes when the status is
\* 200; a 200 response whose body does not decode is counted as failed and no
\* create request is sent for it.
C2_SkipOrCreate ==
    (pub.last.outcome # "none" /\ ~pub.last.get.raised)
    => IF pub.last.get.status = HTTP_OK /\ ~pub.last.get.decodable
       THEN pub.last.outcome = "failed" /\ ~pub.last.create_sent
       ELSE /\ (pub.last.outcome = "skipped")
                 <=> (pub.last.get.status = HTTP_OK /\ pub.last.lunch_listed)
            /\ (pub.last.outcome = "skipped") => ~pub.last.create_sent
            /\ (pub.last.outcome # "skipped") => pub.last.create_sent

\* C2 witness: a query answered with a non-200 status that listed a "Lunch"
\* event, and the create request was sent all the same.
C2_Witness ==
    /\ pub.last.outcome = "added"
    /\ ~pub.last.get.raised
    /\ pub.last.get.status # HTTP_OK
    /\ pub.last.lunch_listed
    /\ pub.last.create_sent

\* C3: when a configured Publisher run on a MenuSet has ended, every record was
\* counted exactly once: success_count + skipped_count + error_count is the
\* number of records.
C3_EveryRecordCounted ==
    (/\ pub.pc = "exit"
     /\ json.type = "list"
     /\ ~ConfigMissing(pub.ha_url, pub.ha_token))
    => pub.success_count + pub.skipped_count + pub.error_count = Len(json.items)

\* C4: a Publisher run with the URL or the token missing sends no request and
\* ends with a non-zero exit status.
C4_MissingConfigFailsRun ==
    (pub.pc = "exit" /\ ConfigMissing(pub.ha_url, pub.ha_token))
    => (pub.gets = 0 /\ pub.posts = 0 /\ pub.exit # 0)

----------------------------------------------------------------------------
(* Claims about the pipeline, checked under Spec *)

\* C5: a path whose JSON file existed when the Orchestrator came to it gets
\* neither a parse_menu.py nor an add_to_homeassistant.py invocation in that run.
C5_ExistingJsonSkipsBoth ==
    /\ \A k \in 1..Len(orch.files) :
          orch.files[k].json_existed
          => (orch.files[k].parse_calls = 0 /\ orch.files[k].publish_calls = 0)
    /\ (orch.files # <<>> /\ orch.files[Len(orch.files)].json_existed)
       => (ext.pc = "off" /\ pub.pc = "off")

\* C5 witness: a run that fetched the PDF anew, found the JSON file there and
\* ended.
C5_Witness ==
    /\ orch.pc = "done"
    /\ pdf = orch.runs
    /\ Len(orch.files) = 1
    /\ orch.files[1].json_existed

\* C6: an Orchestrator run whose Fetcher found no candidate for the current
\* month ends with exit status 0 and invokes neither Extractor nor Publisher.
C6_NotFoundEndsOk ==
    (orch.pc = "done" /\ orch.fetch_result = "not_found")
    => (orch.exit = 0 /\ orch.files = <<>>)

\* C7: the Extractor writes the JSON file exactly when the service answered
\* with a list or with an object that has a "menu" key; what it writes is a
\* list; in every other case it writes nothing and exits non-zero.
C7_PersistsOnlyLists ==
    ext.pc = "exit"
    => LET response == ext.service.response
           accepted == /\ PathExists(PdfPath)
                       /\ ext.api_key
                       /\ ~ext.service.failed
                       /\ \/ response.type = "list"
                          \/ response.type = "dict" /\ response.has_menu
       IN  IF accepted
           THEN ext.wrote /\ ext.exit = 0 /\ json = response.value /\ json.type = "list"
           ELSE ~ext.wrote /\ ext.exit # 0 /\ json = NoFile

\* A candidate that downloaded and whose first-page text names the current
\* month, in whatever case.
C8_Matches(entry) ==
    /\ entry.outcome.kind = "pdf"
    /\ entry.outcome.text \in {"AUGUST LUNCH MENU", "august lunch menu"}

C9_NoTempFileLeft ==
    fetch.pc = "exit"
    => /\ temps = {}
       /\ ~fetch.found_menu => (fetch.exit # 0 /\ pdf = fetch.pdf0)

\* C9 witness: a run in which no candidate matched, two temporary files were
\* written, one by a download that broke off, while an earlier run's PDF was
\* there.
C9_Witness ==
    /\ fetch.pc = "exit"
    /\ fetch.result = "not_found"
    /\ fetch.pdf0 # 0
    /\ temps = {}
    /\ Len(fetch.downloads) >= 2
    /\ fetch.downloads[1].outcome.kind = "broken"
    /\ fetch.downloads[2].outcome.kind = "pdf"

\* C10: the stages run in order, each at most once per file and run: a stage's
\* process lives only while the Orchestrator waits for it; the Extractor runs
\* only for a path the Fetcher printed after exiting 0; the Publisher runs
\* only after the Extractor ran for that file, exited 0 and printed the path
\* of an existing JSON file; and once the Fetcher has succeeded neither a
\* parse failure nor a Publisher failure keeps the run from going through
\* every path and exiting 0.
C10_StagesInOrder ==
    /\ fetch.pc # "off" => orch.pc = "fetch"
    /\ ext.pc # "off" => orch.pc = "parse"
    /\ pub.pc # "off" => orch.pc = "publish"
    /\ orch.files # <<>> => orch.fetch_exit = 0
    /\ \A k \in 1..Len(orch.files) :
          LET f == orch.files[k] IN
          /\ f.path = orch.downloaded_pdf_paths[k]
          /\ f.path = PdfPath /\ pdf # 0
          /\ f.parse_calls <= 1
          /\ f.publish_calls <= 1
          /\ f.publish_calls > 0
             => (f.parse_calls = 1 /\ f.parse_exit = 0 /\ f.parse_path_ok /\ json # NoFile)
          /\ \A j \in 1..Len(orch.files) : j # k => orch.files[j].path # f.path
    /\ (orch.pc = "done" /\ orch.fetch_result = "found")
       => (orch.exit = 0 /\ Len(orch.files) = Len(orch.downloaded_pdf_paths))

\* C10 witness: a run that ended with exit status 0 although its Publisher
\* failed.
C10_Witness ==
    /\ orch.pc = "done"
    /\ orch.exit = 0
    /\ Len(orch.files) = 1
    /\ orch.files[1].publish_calls = 1
    /\ orch.files[1].publish_failed

\* C11: over all runs of the Orchestrator (the JSON file is never deleted),
\* add_to_homeassistant.py is started at most once, in the run whose parse
\* wrote the JSON file; in every later run no Publisher process exists, so
\* the calendar stays as that one invocation left it.
C11_PublishedOnlyByCreatingRun ==
    LET h == orch.history IN
    /\ h.publish_total <= 1
    /\ h.publish_total = 1
       => (h.published_in = h.json_created_in /\ h.published_in >= 1 /\ json # NoFile)
    /\ pub.pc # "off" => (h.publish_total = 1 /\ h.published_in = orch.runs)
    /\ (json # NoFile /\ orch.runs > h.json_created_in) => pub.pc = "off"
    /\ json # NoFile <=> (h.json_created_in >= 1 \/ (ext.pc = "exit" /\ ext.wrote))

\* C11 witness: the run after the one that wrote the JSON file has ended; the
\* only Publisher invocation, in the earlier run, failed, and a record of the
\* stored MenuSet still has no "Lunch" event on its day.
C11_Witness ==
    /\ orch.pc = "done"
    /\ orch.runs = 2
    /\ orch.history.json_created_in = 1
    /\ orch.history.publish_total = 1
    /\ orch.history.publish_failed
    /\ json.type = "list"
    /\ \E k \in 1..Len(json.items) :
         /\ ParsesAsDate(json.items[k].date)
         /\ ~\E e \in ListEvents(calendar, DayWindow(json.items[k].date)) :
               e.summary = "Lunch"

====
